---- MODULE Spec2Model ----
(***************************************************************************)
(* Model of festim_model/compare_1d_2d.py: the function prop_errors (fit   *)
(* of the analytical downstream-flux model to an observed flux series and  *)
(* the three relative errors against the FLiBe reference correlations) and *)
(* the __main__ driver (temperature sweep, thickness x diameter sweep,     *)
(* contour stage).                                                         *)
(*                                                                         *)
(* Numbers.  The program computes in float64; the model computes in exact  *)
(* rationals <<numerator, denominator>> in lowest terms with a positive    *)
(* denominator, over small integer magnitudes.                             *)
(***************************************************************************)
EXTENDS Integers, Sequences, FiniteSets, TLC

(***************************************************************************)
(* Bounds of the model.                                                    *)
(***************************************************************************)
\* longest observed flux series handed to prop_errors directly
MaxPoints == 3
\* the solver searches, in steps of one half, permeability in -MaxPerm..MaxPerm
\* and diffusivity in 1/2..MaxDiff, besides its starting guess
MaxPerm == 3
MaxDiff == 3
\* resolution of the transient factor of the flux model
RampSteps == 4
\* length of T_values, thicknesses and diameters in the driver
NumTemps == 2
NumThicknesses == 1
NumDiameters == 2

(***************************************************************************)
(* Exact rational arithmetic (stands for the float64 arithmetic).          *)
(***************************************************************************)
Abs(x) == IF x < 0 THEN -x ELSE x

Min(a, b) == IF a <= b THEN a ELSE b

RECURSIVE GCD(_, _)
GCD(a, b) == IF b = 0 THEN a ELSE GCD(b, a % b)

Rat(n, d) ==
    LET g == GCD(Abs(n), Abs(d))
        s == IF d < 0 THEN -1 ELSE 1
    IN  <<(s * n) \div g, (s * d) \div g>>

Int2Rat(i) == <<i, 1>>

RatSub(a, b) ==
    LET g == GCD(a[2], b[2])
    IN  Rat(a[1] * (b[2] \div g) - b[1] * (a[2] \div g), (a[2] \div g) * b[2])

RatMul(a, b) == Rat(a[1] * b[1], a[2] * b[2])

RatDiv(a, b) == Rat(a[1] * b[2], a[2] * b[1])

RatAdd(a, b) ==
    LET g == GCD(a[2], b[2])
    IN  Rat(a[1] * (b[2] \div g) + b[1] * (a[2] \div g), (a[2] \div g) * b[2])

RatLeq(a, b) == a[1] * b[2] <= b[1] * a[2]

RatLess(a, b) == a[1] * b[2] < b[1] * a[2]

RatAbs(a) == <<Abs(a[1]), a[2]>>

(***************************************************************************)
(* Reference correlations of FLiBe (h_transport_materials, Calderoni):     *)
(* Arrhenius laws pre_exp * exp(-E / (k_B T)), positive for every nonzero  *)
(* T, increasing in T for T > 0 and above pre_exp for T < 0.               *)
(***************************************************************************)
Temperatures == {-1, 1, 2}

flibe_diffusivity_value(T) == IF T > 0 THEN T + 1 ELSE 4 - T

flibe_solubility_value(T) == IF T > 0 THEN T ELSE 3 - T

(***************************************************************************)
(* The analytical downstream flux (festim_model_copy.downstream_flux_salt):*)
(* steady state P_up * permeability / L, reached along a transient that    *)
(* depends on D * t / L^2.  The transient is a ramp in RampSteps steps,     *)
(* zero at t = 0 and positive afterwards.  permeability and D are          *)
(* rationals, t, P_up and L integers.                                      *)
(***************************************************************************)
transient(t, L, D) ==
    <<Min(RampSteps, (RampSteps * D[1] * t + D[2] * L * L - 1) \div (D[2] * L * L)), RampSteps>>

downstream_flux_salt(t, P_up, L, permeability, D) ==
    Rat(P_up * permeability[1] * transient(t, L, D)[1],
        permeability[2] * L * transient(t, L, D)[2])

(***************************************************************************)
(* prop_errors, lines 36-76.                                               *)
(***************************************************************************)
ErrorKeys == {"diffusivity error", "solubility error", "permeability error"}

\* np.abs(flux), line 54
np_abs(flux) == [i \in 1..Len(flux) |-> Abs(flux[i])]

\* line 50: the guess handed to curve_fit, (reference permeability, reference diffusivity)
guess(temp) ==
    <<Int2Rat(flibe_solubility_value(temp) * flibe_diffusivity_value(temp)),
      Int2Rat(flibe_diffusivity_value(temp))>>

\* line 54: lambda t, permeability, D: downstream_flux_salt(t, P_up, salt_thickness, permeability, D)
fit_lambda(P_up, salt_thickness, t, permeability, D) ==
    downstream_flux_salt(t, P_up, salt_thickness, permeability, D)

(***************************************************************************)
(* scipy.optimize.curve_fit, as the fit procedure is specified: the        *)
(* least-squares minimisation of the sum of squared residuals over the two *)
(* free parameters, started from the guess.  The parameter plane is        *)
(* sampled on a grid of half-integers, negative permeabilities included,   *)
(* to which the starting guess is added; the diffusivity stays positive    *)
(* (the transient is defined for D > 0).                                   *)
(***************************************************************************)
NumPerm == 4 * MaxPerm + 1

NumDiff == 2 * MaxDiff

\* the n-th pair of the grid, n in 1..NumPerm * NumDiff; pair 0 is the guess
Candidate(n, p0) ==
    IF n = 0 THEN p0
    ELSE <<Rat(((n - 1) \div NumDiff) - 2 * MaxPerm, 2), Rat(((n - 1) % NumDiff) + 1, 2)>>

Candidates(p0) == {Candidate(n, p0) : n \in 0..(NumPerm * NumDiff)}

RECURSIVE SumSq(_, _, _, _, _, _)
\* sum over the points i..Len(ydata) of (ydata[i] - f(times[i], c))^2
SumSq(times, ydata, P_up, salt_thickness, c, i) ==
    IF i > Len(ydata) THEN Int2Rat(0)
    ELSE LET r == RatSub(Int2Rat(ydata[i]), fit_lambda(P_up, salt_thickness, times[i], c[1], c[2]))
         IN  RatAdd(RatMul(r, r), SumSq(times, ydata, P_up, salt_thickness, c, i + 1))

\* distance of a parameter pair from the starting guess
StartDist(c, p0) == RatAdd(RatAbs(RatSub(c[1], p0[1])), RatAbs(RatSub(c[2], p0[2])))

\* a scored pair [c, ssr, dist] is better than another: a smaller residual,
\* and at equal residual the pair nearer the start (the solver is a descent
\* from p0 and is deterministic), then the smaller pair
Better(a, b) ==
    \/ RatLess(a.ssr, b.ssr)
    \/ /\ a.ssr = b.ssr
       /\ \/ RatLess(a.dist, b.dist)
          \/ /\ a.dist = b.dist
             /\ \/ RatLess(a.c[1], b.c[1])
                \/ a.c[1] = b.c[1] /\ RatLess(a.c[2], b.c[2])

\* the pairs of the search, each with its residual and its distance from p0
Scored(times, ydata, p0, P_up, salt_thickness) ==
    {[c |-> c,
      ssr |-> SumSq(times, ydata, P_up, salt_thickness, c, 1),
      dist |-> StartDist(c, p0)] : c \in Candidates(p0)}

\* the least-squares parameters: the best of the scored pairs
argmin(scored) == (CHOOSE s \in scored : \A e \in scored : e = s \/ Better(s, e)).c

\* scipy.optimize.curve_fit(f, times, ydata, p0) with the default method 'lm':
\* an empty ydata raises ValueError, fewer points than parameters raises
\* TypeError, an iteration that does not end within its budget raises
\* RuntimeError, otherwise the least-squares parameters are returned.
\* converges tells whether the iteration ends within its budget on this
\* input: the solver decides it, not the program.
curve_fit(times, ydata, p0, P_up, salt_thickness, converges) ==
    IF Len(ydata) = 0 THEN [raised |-> "ValueError", popt |-> <<>>]
    ELSE IF Len(p0) > Len(ydata) THEN [raised |-> "TypeError", popt |-> <<>>]
    ELSE IF ~converges THEN [raised |-> "RuntimeError", popt |-> <<>>]
    ELSE [raised |-> "none",
          popt |-> argmin(Scored(times, ydata, p0, P_up, salt_thickness))]

\* line 57
perm(temp) == flibe_diffusivity_value(temp) * flibe_solubility_value(temp)

\* line 58 without the division: the fitted permeability taken as the solubility
sol_undivided(props) == props[1]

\* line 58
sol(props) == RatDiv(props[1], props[2])

\* line 61
diff_error(temp, props) ==
    RatMul(RatDiv(RatSub(Int2Rat(flibe_diffusivity_value(temp)), props[2]),
                  Int2Rat(flibe_diffusivity_value(temp))), Int2Rat(100))

\* line 62
sol_error(temp, props) ==
    RatMul(RatDiv(RatSub(Int2Rat(flibe_solubility_value(temp)), sol(props)),
                  Int2Rat(flibe_solubility_value(temp))), Int2Rat(100))

\* line 63 with the operands of the difference exchanged
perm_error_flipped(temp, props) ==
    RatMul(RatDiv(RatSub(props[1], Int2Rat(perm(temp))), Int2Rat(perm(temp))),
           Int2Rat(100))

\* line 63
perm_error(temp, props) ==
    RatMul(RatDiv(RatSub(Int2Rat(perm(temp)), props[1]), Int2Rat(perm(temp))),
           Int2Rat(100))

\* lines 64-75 with the test of line 64 dropped: the plots are always drawn
plot_calls_always(plot) == 6

\* lines 64-75: the plotting calls made when plot is set (plot, scatter, plot,
\* plot, legend, show)
plot_calls(plot) == IF plot THEN 6 ELSE 0

NoReport == [k \in {} |-> <<0, 1>>]

\* The outcome of one call: the exception raised ("none" when it returns),
\* whether curve_fit was entered, the returned dictionary, the parameters the
\* solver returned and the number of plotting calls made.
report(fit, temp, plot) ==
    IF fit.raised # "none"
    THEN [raised |-> fit.raised, fitted |-> TRUE, value |-> NoReport, props |-> <<>>,
          plotted |-> 0]
    ELSE [raised |-> "none",
          fitted |-> TRUE,
          value |-> [k \in ErrorKeys |->
                        CASE k = "diffusivity error" -> diff_error(temp, fit.popt)
                          [] k = "solubility error" -> sol_error(temp, fit.popt)
                          [] OTHER -> perm_error(temp, fit.popt)],
          props |-> fit.popt,
          plotted |-> plot_calls(plot)]

\* converges is not an argument of the function: it is what the solver does
\* with the arguments
prop_errors(flux, times, salt_thickness, temp, P_up, plot, converges) ==
    report(curve_fit(times, np_abs(flux), guess(temp), P_up, salt_thickness, converges),
           temp, plot)

(***************************************************************************)
(* Module-level names of the driver.  T_values, salt_thickness, T_val and  *)
(* P_up are imported (lines 7-8); thicknesses and diameters are the        *)
(* increasing linspace grids of lines 78-79.                               *)
(***************************************************************************)
T_values == [i \in 1..NumTemps |-> i]

thicknesses == [j \in 1..NumThicknesses |-> j]

diameters == [i \in 1..NumDiameters |-> 2 * i]

salt_thickness == 2

T_val == 1

P_up == 1

\* order in which lines 130-132 and 211-213 fill the three lists
KeyOrder == <<"diffusivity error", "solubility error", "permeability error">>

\* t_2d of a derived_quantities.csv with n rows
TimesOf(n) == [i \in 1..n |-> i - 1]

\* flux_2d columns the derived_quantities.csv files may hold (already np.abs'ed
\* and normalised by the area, lines 107 and 187); a file holds a transient of
\* at least two rows
DriverSeries == {<<0, 0, 1>>, <<0, 1, 2>>}

\* a fresh errors dictionary (lines 82-86 and 166-171), its three lists
FreshErrors == [k \in ErrorKeys |-> <<>>]

Pending == [raised |-> "pending", fitted |-> FALSE, value |-> NoReport, props |-> <<>>,
            plotted |-> 0]

NoArgs == [flux |-> <<>>, times |-> <<>>, thickness |-> 0, temp |-> 0, P_up |-> 0,
           converges |-> TRUE]

VARIABLES pc, T_plot, thickness_comp, errors, overall_error, iT, iD, iL, kidx,
          cur, ret, ncalls, plt_calls, files, rets

vars == <<pc, T_plot, thickness_comp, errors, overall_error, iT, iD, iL, kidx,
          cur, ret, ncalls, plt_calls, files, rets>>

(***************************************************************************)
(* State.                                                                  *)
(*   pc                    position in the script                          *)
(*   T_plot, thickness_comp the two flags of lines 89-90                   *)
(*   errors                the three lists of the errors dictionary        *)
(*   overall_error         defined: whether the name is bound; val: its    *)
(*                         three lists of rows                             *)
(*   iT, iD, iL            positions of the for loops (1-based)            *)
(*   kidx                  which of the three statements 130-132 / 211-213 *)
(*   cur                   arguments the next prop_errors call receives    *)
(*   ret                   outcome of the latest prop_errors call          *)
(*   ncalls                prop_errors calls made since cur was loaded     *)
(*   plt_calls             plotting calls made so far                      *)
(*   files                 flux series read, by point of the sweep under   *)
(*                         way                                             *)
(*   rets                  outcome of a direct call, by its plot argument  *)
(***************************************************************************)
Call(args, plot) ==
    prop_errors(args.flux, args.times, args.thickness, args.temp, args.P_up, plot,
                args.converges)

DriverInit ==
    /\ pc = "start"
    /\ T_plot \in BOOLEAN
    /\ thickness_comp \in BOOLEAN
    /\ errors = FreshErrors
    /\ overall_error = [defined |-> FALSE, val |-> FreshErrors]
    /\ iT = 0 /\ iD = 0 /\ iL = 0 /\ kidx = 0
    /\ cur = NoArgs
    /\ ret = Pending
    /\ ncalls = 0
    /\ plt_calls = 0
    /\ files = [p \in {} |-> <<>>]
    /\ rets = [b \in BOOLEAN |-> Pending]

\* lines 82-91
Start ==
    /\ pc = "start"
    /\ errors' = FreshErrors
    /\ IF T_plot
       THEN IF NumTemps >= 1 THEN pc' = "T_load" /\ iT' = 1
                             ELSE pc' = "T_after" /\ iT' = 0
       ELSE pc' = "thick_check" /\ iT' = iT
    /\ UNCHANGED <<T_plot, thickness_comp, overall_error, iD, iL, kidx, cur, ret, ncalls,
                   plt_calls, files, rets>>

\* lines 93-126: read the files of T_values[iT], plot the two curves
T_Load ==
    /\ pc = "T_load"
    /\ \E s \in DriverSeries, conv \in BOOLEAN :
          /\ cur' = [flux |-> s, times |-> TimesOf(Len(s)), thickness |-> salt_thickness,
                     temp |-> T_values[iT], P_up |-> P_up, converges |-> conv]
          /\ files' = (<<0, iT>> :> s) @@ files
    /\ ncalls' = 0
    /\ kidx' = 1
    /\ plt_calls' = plt_calls + 4
    /\ pc' = "T_call"
    /\ UNCHANGED <<T_plot, thickness_comp, errors, overall_error, iT, iD, iL, ret, rets>>

\* the call of line 130, 131 or 132 (kidx = 1, 2, 3)
T_Call ==
    /\ pc = "T_call"
    /\ ret' = Call(cur, FALSE)
    /\ ncalls' = ncalls + 1
    /\ plt_calls' = plt_calls + ret'.plotted
    /\ pc' = IF ret'.raised = "none" THEN "T_append" ELSE "raised"
    /\ UNCHANGED <<T_plot, thickness_comp, errors, overall_error, iT, iD, iL, kidx, cur,
                   files, rets>>

\* the subscript and append of line 130, 131 or 132
T_Append ==
    /\ pc = "T_append"
    /\ errors' = [errors EXCEPT ![KeyOrder[kidx]] = Append(@, ret.value[KeyOrder[kidx]])]
    /\ IF kidx < 3
       THEN kidx' = kidx + 1 /\ pc' = "T_call" /\ iT' = iT
       ELSE /\ kidx' = 0
            /\ IF iT < NumTemps THEN pc' = "T_load" /\ iT' = iT + 1
                                ELSE pc' = "T_after" /\ iT' = iT
    /\ UNCHANGED <<T_plot, thickness_comp, overall_error, iD, iL, cur, ret, ncalls,
                   plt_calls, files, rets>>

\* lines 135-150
T_After ==
    /\ pc = "T_after"
    /\ plt_calls' = plt_calls + 14
    /\ files' = [p \in {} |-> <<>>]
    /\ pc' = "thick_check"
    /\ UNCHANGED <<T_plot, thickness_comp, errors, overall_error, iT, iD, iL, kidx, cur,
                   ret, ncalls, rets>>

\* lines 152-165, thickness_comp set
ThickInit ==
    /\ pc = "thick_check"
    /\ thickness_comp
    /\ overall_error' = [defined |-> TRUE, val |-> [k \in ErrorKeys |-> <<>>]]
    /\ IF NumDiameters >= 1 THEN pc' = "diam_init" /\ iD' = 1
                            ELSE pc' = "contour" /\ iD' = 0
    /\ UNCHANGED <<T_plot, thickness_comp, errors, iT, iL, kidx, cur, ret, ncalls,
                   plt_calls, files, rets>>

\* line 152, thickness_comp clear: the block is skipped
ThickSkip ==
    /\ pc = "thick_check"
    /\ ~thickness_comp
    /\ pc' = "contour"
    /\ UNCHANGED <<T_plot, thickness_comp, errors, overall_error, iT, iD, iL, kidx, cur,
                   ret, ncalls, plt_calls, files, rets>>

\* lines 166-175 without the fresh dictionary of line 166
DiamInit_keep ==
    /\ pc = "diam_init"
    /\ IF NumThicknesses >= 1 THEN pc' = "L_load" /\ iL' = 1
                              ELSE pc' = "collect" /\ iL' = 0
    /\ UNCHANGED <<T_plot, thickness_comp, errors, overall_error, iT, iD, kidx, cur, ret,
                   ncalls, plt_calls, files, rets>>

\* lines 166-175
DiamInit ==
    /\ pc = "diam_init"
    /\ errors' = FreshErrors
    /\ IF NumThicknesses >= 1 THEN pc' = "L_load" /\ iL' = 1
                              ELSE pc' = "collect" /\ iL' = 0
    /\ UNCHANGED <<T_plot, thickness_comp, overall_error, iT, iD, kidx, cur, ret, ncalls,
                   plt_calls, files, rets>>

\* lines 176-193: read the files of (diameters[iD], thicknesses[iL])
L_Load ==
    /\ pc = "L_load"
    /\ \E s \in DriverSeries, conv \in BOOLEAN :
          /\ cur' = [flux |-> s, times |-> TimesOf(Len(s)), thickness |-> thicknesses[iL],
                     temp |-> T_val, P_up |-> P_up, converges |-> conv]
          /\ files' = (<<iD, iL>> :> s) @@ files
    /\ ncalls' = 0
    /\ kidx' = 1
    /\ pc' = "L_call"
    /\ UNCHANGED <<T_plot, thickness_comp, errors, overall_error, iT, iD, iL, ret,
                   plt_calls, rets>>

\* lines 211-213 with one call whose dictionary serves the three appends
L_Call_once ==
    /\ pc = "L_call"
    /\ ret' = IF kidx = 1 THEN Call(cur, FALSE) ELSE ret
    /\ ncalls' = IF kidx = 1 THEN ncalls + 1 ELSE ncalls
    /\ plt_calls' = plt_calls + (IF kidx = 1 THEN ret'.plotted ELSE 0)
    /\ pc' = IF ret'.raised = "none" THEN "L_append" ELSE "raised"
    /\ UNCHANGED <<T_plot, thickness_comp, errors, overall_error, iT, iD, iL, kidx, cur,
                   files, rets>>

\* the call of line 211, 212 or 213 (kidx = 1, 2, 3)
L_Call ==
    /\ pc = "L_call"
    /\ ret' = Call(cur, FALSE)
    /\ ncalls' = ncalls + 1
    /\ plt_calls' = plt_calls + ret'.plotted
    /\ pc' = IF ret'.raised = "none" THEN "L_append" ELSE "raised"
    /\ UNCHANGED <<T_plot, thickness_comp, errors, overall_error, iT, iD, iL, kidx, cur,
                   files, rets>>

\* the subscript and append of line 211, 212 or 213
L_Append ==
    /\ pc = "L_append"
    /\ errors' = [errors EXCEPT ![KeyOrder[kidx]] = Append(@, ret.value[KeyOrder[kidx]])]
    /\ IF kidx < 3
       THEN kidx' = kidx + 1 /\ pc' = "L_call" /\ iL' = iL
       ELSE /\ kidx' = 0
            /\ IF iL < NumThicknesses THEN pc' = "L_load" /\ iL' = iL + 1
                                      ELSE pc' = "collect" /\ iL' = iL
    /\ UNCHANGED <<T_plot, thickness_comp, overall_error, iT, iD, cur, ret, ncalls,
                   plt_calls, files, rets>>

\* lines 229-233
Collect ==
    /\ pc = "collect"
    /\ overall_error' = [overall_error EXCEPT
                           !.val = [k \in ErrorKeys |-> Append(overall_error.val[k], errors[k])]]
    /\ IF iD < NumDiameters THEN pc' = "diam_init" /\ iD' = iD + 1
                            ELSE pc' = "contour" /\ iD' = iD
    /\ UNCHANGED <<T_plot, thickness_comp, errors, iT, iL, kidx, cur, ret, ncalls,
                   plt_calls, files, rets>>

\* lines 236-249: ZZ = overall_error['permeability error'] raises NameError
\* when the name was never bound
Contour ==
    /\ pc = "contour"
    /\ IF overall_error.defined
       THEN pc' = "done" /\ plt_calls' = plt_calls + 10
       ELSE pc' = "NameError" /\ plt_calls' = plt_calls
    /\ UNCHANGED <<T_plot, thickness_comp, errors, overall_error, iT, iD, iL, kidx, cur,
                   ret, ncalls, files, rets>>

Next ==
    \/ Start
    \/ T_Load
    \/ T_Call
    \/ T_Append
    \/ T_After
    \/ ThickInit
    \/ ThickSkip
    \/ DiamInit
    \/ L_Load
    \/ L_Call
    \/ L_Append
    \/ Collect
    \/ Contour

Spec == DriverInit /\ [][Next]_vars

(***************************************************************************)
(* prop_errors called directly: the arguments are drawn when the call is   *)
(* set up, then the function is applied with plot = False and with         *)
(* plot = True.                                                            *)
(***************************************************************************)
FluxValues == {-1, 0, 2}

Thicknesses == {-1, 2}

Pressures == {0, 3}

FluxSeries == UNION {[1..n -> FluxValues] : n \in 0..MaxPoints}

FitInit ==
    /\ pc = "fit"
    /\ T_plot = FALSE
    /\ thickness_comp = FALSE
    /\ errors = FreshErrors
    /\ overall_error = [defined |-> FALSE, val |-> FreshErrors]
    /\ iT = 0 /\ iD = 0 /\ iL = 0 /\ kidx = 0
    /\ \E f \in FluxSeries, L \in Thicknesses, T \in Temperatures, P \in Pressures,
          conv \in BOOLEAN :
          cur = [flux |-> f, times |-> TimesOf(Len(f)), thickness |-> L, temp |-> T,
                 P_up |-> P, converges |-> conv]
    /\ ret = Pending
    /\ ncalls = 0
    /\ plt_calls = 0
    /\ files = [p \in {} |-> <<>>]
    /\ rets = [b \in BOOLEAN |-> Pending]

FitCall(plot) ==
    /\ pc = "fit"
    /\ rets[plot] = Pending
    /\ ret' = Call(cur, plot)
    /\ rets' = [rets EXCEPT ![plot] = ret']
    /\ ncalls' = ncalls + 1
    /\ plt_calls' = plt_calls + ret'.plotted
    /\ UNCHANGED <<pc, T_plot, thickness_comp, errors, overall_error, iT, iD, iL, kidx,
                   cur, files>>

FitNext == \E plot \in BOOLEAN : FitCall(plot)

SpecFit == FitInit /\ [][FitNext]_vars

(***************************************************************************)
(* Properties.                                                             *)
(***************************************************************************)
Returned(r) == r.raised = "none"

Called(r) == r.raised # "pending"

RefD == flibe_diffusivity_value(cur.temp)

RefS == flibe_solubility_value(cur.temp)

\* C1: every returned report holds, for the fitted pair (p, d) of its fit,
\* error_X = (reference_X - fitted_X) / reference_X * 100 with fitted
\* diffusivity d, fitted solubility p/d, fitted permeability p and reference
\* permeability RefD * RefS; each error is positive exactly when the fitted
\* value is below the reference.  (Stated without division: e = e[1]/e[2] is
\* the reported error, p = p[1]/p[2], d = d[1]/d[2] with d > 0.)
C1_ErrorFormulas ==
    Returned(ret) =>
        LET p == ret.props[1]
            d == ret.props[2]
            eD == ret.value["diffusivity error"]
            eS == ret.value["solubility error"]
            eP == ret.value["permeability error"]
        IN  /\ eD[1] * RefD * d[2] = 100 * (RefD * d[2] - d[1]) * eD[2]
            /\ eS[1] * RefS * p[2] * d[1] = 100 * (RefS * p[2] * d[1] - p[1] * d[2]) * eS[2]
            /\ eP[1] * RefD * RefS * p[2] = 100 * (RefD * RefS * p[2] - p[1]) * eP[2]
            /\ (eD[1] > 0) <=> (d[1] < RefD * d[2])
            /\ (eS[1] > 0) <=> (p[1] * d[2] < RefS * p[2] * d[1])
            /\ (eP[1] > 0) <=> (p[1] < RefD * RefS * p[2])

\* C1 witness: a report with a fitted permeability below the reference and a
\* fitted diffusivity above it
C1_Witness ==
    /\ Returned(ret)
    /\ ret.props[1][1] > 0
    /\ RatLess(ret.props[1], Int2Rat(RefD * RefS))
    /\ RatLess(Int2Rat(RefD), ret.props[2])
    /\ ret.value["permeability error"][1] > 0
    /\ ret.value["diffusivity error"][1] < 0

RECURSIVE Residual(_, _, _)
\* sum over the points i.. of (|flux[i]| - flux model at the caller's P_up and
\* thickness and the pair c)^2
Residual(args, c, i) ==
    IF i > Len(args.flux) THEN <<0, 1>>
    ELSE LET f == downstream_flux_salt(args.times[i], args.P_up, args.thickness, c[1], c[2])
             r == RatSub(<<Abs(args.flux[i]), 1>>, f)
         IN  RatAdd(RatMul(r, r), Residual(args, c, i + 1))

\* C2: the solubility behind the solubility error is the fitted permeability
\* over the fitted diffusivity of the same fit; the fit returns exactly two
\* parameters and they are least-squares parameters of the flux model taken at
\* the caller's upstream pressure and thickness.
C2_SolubilityDerived ==
    Returned(ret) =>
        LET eS == ret.value["solubility error"]
            \* the solubility the reported error was computed from, times 100 * eS[2]
            usedSol == (100 * eS[2] - eS[1]) * RefS
        IN  /\ Len(ret.props) = 2
            /\ usedSol * ret.props[2][1] * ret.props[1][2] =
                   100 * eS[2] * ret.props[1][1] * ret.props[2][2]
            /\ \A mine \in {Residual(cur, ret.props, 1)} :
                   \A c \in Candidates(guess(cur.temp)) : RatLeq(mine, Residual(cur, c, 1))

\* C2 witness: a report of a fit whose diffusivity is not 1 and whose
\* permeability is not 0, with a pressure different from the thickness
C2_Witness ==
    /\ Returned(ret)
    /\ ret.props[2] # <<1, 1>>
    /\ ret.props[1][1] > 0
    /\ ret.props # guess(cur.temp)
    /\ cur.P_up # cur.thickness
    /\ cur.P_up > 0

\* C3: a series of fewer than 2 points fails with InsufficientDataError and
\* returns no report.
C3_InsufficientDataError ==
    (Called(ret) /\ Len(cur.flux) < 2) =>
        (ret.raised = "InsufficientDataError" /\ ret.value = NoReport)

NonPositiveInput == cur.thickness <= 0 \/ cur.P_up <= 0 \/ cur.temp <= 0

\* C4: a non-positive thickness, upstream pressure or temperature fails with
\* InvalidInputError, the solver is not run and no report is returned (taken
\* on series long enough to be fitted).
C4_NonPositiveRejected ==
    (Called(ret) /\ Len(cur.flux) >= 2 /\ NonPositiveInput) =>
        (ret.raised = "InvalidInputError" /\ ~ret.fitted /\ ret.value = NoReport)

AllZero(flux) == \A i \in 1..Len(flux) : flux[i] = 0

\* C5: an all-zero flux series fails with ConvergenceError (the solver's
\* RuntimeError) or InvalidInputError and never yields a report (taken on
\* series long enough to be fitted, with positive thickness, pressure and
\* temperature).
C5_AllZeroRejected ==
    (Called(ret) /\ Len(cur.flux) >= 2 /\ AllZero(cur.flux) /\ ~NonPositiveInput) =>
        /\ ret.raised \in {"ConvergenceError", "RuntimeError", "InvalidInputError"}
        /\ ret.value = NoReport

InSweep == pc \in {"T_call", "T_append", "L_call", "L_append"}

\* C6 as stated: the fit is invoked exactly once per grid point, and the
\* three stored values come from that one invocation.
C6_OneCallPerPoint ==
    /\ pc \in {"T_append", "L_append"} => ncalls = 1
    /\ ncalls <= 1

\* the series read for the point the loops stand at
PointSeries == IF pc \in {"T_call", "T_append"} THEN files[<<0, iT>>] ELSE files[<<iD, iL>>]

\* C6 as amended: the fit is invoked three times per grid point, once per
\* error key, each time with that point's series and the same arguments; each
\* stored value is the entry of its own invocation's report.
C6_ThreeCallsPerPoint ==
    /\ pc \in {"T_call", "L_call"} => (ncalls = kidx - 1 /\ cur.flux = PointSeries)
    /\ pc \in {"T_append", "L_append"} =>
          /\ ncalls = kidx
          /\ cur.flux = PointSeries
          /\ ret = Call(cur, FALSE)
    /\ (pc \in {"T_load", "T_after", "L_load", "collect"} /\ errors["permeability error"] # <<>>) =>
          /\ ncalls = 3
          /\ \A r \in {Call(cur, FALSE)} :
                \A k \in ErrorKeys : errors[k][Len(errors[k])] = r.value[k]

\* C6 witness: the third call of a grid point of the thickness sweep has
\* returned, and likewise a temperature's values are all stored
C6_Witness ==
    /\ pc = "L_append"
    /\ kidx = 3
    /\ ncalls = 3
    /\ T_plot
    /\ iL = NumThicknesses
    /\ Len(errors["solubility error"]) = iL
    /\ Len(errors["permeability error"]) = iL - 1

BothCalled == Called(rets[TRUE]) /\ Called(rets[FALSE])

\* C7: a call with plot = False makes no plotting call and leaves the sweep
\* accumulators alone, and the outcome (exception or dictionary) is the same
\* with plot = True and plot = False.
C7_PlotOptional ==
    /\ [][(rets'[FALSE] # rets[FALSE]) =>
             (plt_calls' = plt_calls /\ errors' = errors /\ overall_error' = overall_error)]_vars
    /\ [](BothCalled => (/\ rets[TRUE].raised = rets[FALSE].raised
                         /\ rets[TRUE].value = rets[FALSE].value))

\* C7 witness: both calls returned a report, the plot = False one first, and
\* only the plot = True one drew
C7_Witness ==
    /\ Returned(rets[TRUE])
    /\ Returned(rets[FALSE])
    /\ ret = rets[TRUE]
    /\ plt_calls = 6
    /\ rets[FALSE].plotted = 0

GridArgs(i, j) ==
    [flux |-> files[<<i, j>>], times |-> TimesOf(Len(files[<<i, j>>])),
     thickness |-> thicknesses[j], temp |-> T_val, P_up |-> P_up, converges |-> TRUE]

C10_ContourHasOverallError ==
    /\ pc = "contour" =>
          (overall_error.defined /\ overall_error.val["permeability error"] # <<>>)
    /\ pc # "NameError"

====
